---- MODULE Spec2Model ----
(***************************************************************************)
(* Model of the BusTub storage substrate: the clock replacer               *)
(* (src/buffer/clock_replacer.cpp), the buffer pool manager                *)
(* (src/buffer/buffer_pool_manager.cpp) and the linear-probe hash index    *)
(* (src/container/hash/linear_probe_hash_table.cpp over                    *)
(* src/storage/page/hash_table_block_page.cpp).                            *)
(*                                                                         *)
(* Spec    : the buffer pool with its replacer, driven by its public calls *)
(* SpecHT  : the hash index, one step per loop iteration / blocking call   *)
(***************************************************************************)
EXTENDS Integers, Sequences, FiniteSets, TLC

\* ------------------------------------------------------------------ bounds
PoolSize == 3
MaxPages == 4
MaxPin == 2
MaxOps == 7
MaxScenOps == 8
BLOCK_ARRAY_SIZE == 3
NumBuckets == 1
MaxKey == 2
MaxVal == 1
MaxCalls == 4
MaxFewCalls == 3
MaxBlockOps == 3
MaxOtherOps == 4

\* ------------------------------------------------------- program constants
INVALID_PAGE_ID == -1

Frames == 0 .. (PoolSize - 1)
PageIds == 0 .. (MaxPages - 1)
\* Page contents: 0 stands for a zeroed page (Page::ResetMemory), 1 for bytes
\* a caller wrote; the buffer pool never looks at the bytes.
Data == {0, 1}

VARIABLES
  pages,                \* pages_[f] = [page_id, pin_count, is_dirty, data]
  page_table,           \* page_table_ : page id -> frame id
  free_list,            \* free_list_ : sequence of frame ids
  clock_replacer_list,  \* ClockReplacer::clock_replacer_list[f] = [isPin, isRef]
  clock_size,           \* ClockReplacer::clock_size
  clock_hand,           \* ClockReplacer::clock_hand
  disk,                 \* bytes the disk manager holds for every page id
  next_page_id,         \* the disk manager's allocation counter
  last,                 \* the last buffer pool call and what it returned
  scen,                 \* progress through the "second chance" scenario
  expect,               \* expect[p]: bytes of p when UnpinPage(p, true) last returned true
  ops,                  \* number of calls made so far
  flush_iter,           \* page id a FlushPageImpl without latch_ has written and not yet marked clean
  ht_pages,             \* the pages of the index: header and block pages with their latches
  header_page_id,       \* LinearProbeHashTable::header_page_id_
  ht_next_page_id,      \* next page id NewPage hands to the index
  table_latch,          \* LinearProbeHashTable::table_latch_ = [r, w]
  th,                   \* th[t]: the call stack of thread t, innermost call last
  ret,                  \* ret[t]: what the last call of thread t returned
  ref,                  \* the set of (key, value) pairs a reference multimap would hold
  calls,                \* number of index calls made so far
  filled                \* whether every slot of the table held a live entry at some point

bpvars == <<pages, page_table, free_list, clock_replacer_list, clock_size,
            clock_hand, disk, next_page_id, last, scen, expect, ops,
            flush_iter>>

htvars == <<ht_pages, header_page_id, ht_next_page_id, table_latch, th, ret,
            ref, calls, filled>>

vars == <<bpvars, htvars>>

NoData == -1

\* =========================================================== ClockReplacer

\* ClockReplacer::ClockReplacer : every slot {isPin = true, isRef = false}
ClockInit ==
  /\ clock_replacer_list = [f \in Frames |-> [isPin |-> TRUE, isRef |-> FALSE]]
  /\ clock_size = 0
  /\ clock_hand = 0

RECURSIVE VictimSweepFrom(_, _, _)
\* ClockReplacer::Victim with the hand advanced before the first slot is looked at
VictimSweepFrom(list, size, hand) ==
  IF ~(size > 0)
  THEN [found |-> FALSE, frame |-> INVALID_PAGE_ID, list |-> list, size |-> size, hand |-> hand]
  ELSE LET h == hand % PoolSize IN
       IF list[h].isPin
       THEN VictimSweepFrom(list, size, h + 1)
       ELSE IF list[h].isRef
            THEN VictimSweepFrom([list EXCEPT ![h].isRef = FALSE], size, h + 1)
            ELSE [found |-> TRUE, frame |-> h,
                  list |-> [list EXCEPT ![h].isPin = TRUE],
                  size |-> size - 1, hand |-> h + 1]

VictimHandFirst(list, size, hand) == VictimSweepFrom(list, size, hand + 1)

\* ClockReplacer::Victim without the clock_size-- of line 49
VictimKeepsSize(list, size, hand) ==
  [VictimSweepFrom(list, size, hand) EXCEPT !.size = size]

RECURSIVE Victim(_, _, _)
\* ClockReplacer::Victim : the sweep of the clock hand; the result carries the
\* replacer state the call leaves behind
Victim(list, size, hand) ==
  IF ~(size > 0)
  THEN [found |-> FALSE, frame |-> INVALID_PAGE_ID, list |-> list, size |-> size, hand |-> hand]
  ELSE LET h == hand % PoolSize IN
       IF list[h].isPin
       THEN Victim(list, size, h + 1)
       ELSE IF list[h].isRef
            THEN Victim([list EXCEPT ![h].isRef = FALSE], size, h + 1)
            ELSE [found |-> TRUE, frame |-> h,
                  list |-> [list EXCEPT ![h].isPin = TRUE],
                  size |-> size - 1, hand |-> h + 1]

RECURSIVE VictimHandMoves(_, _, _)
\* ClockReplacer::Victim : the number of times the call executes clock_hand++
VictimHandMoves(list, size, hand) ==
  IF ~(size > 0)
  THEN 0
  ELSE LET h == hand % PoolSize IN
       IF list[h].isPin
       THEN 1 + VictimHandMoves(list, size, h + 1)
       ELSE IF list[h].isRef
            THEN 1 + VictimHandMoves([list EXCEPT ![h].isRef = FALSE], size, h + 1)
            ELSE 1

\* ClockReplacer::Pin without the clock_size-- of line 61
PinKeepsSize(list, size, frame_id) ==
  IF list[frame_id].isPin = FALSE
  THEN [list |-> [list EXCEPT ![frame_id].isPin = TRUE], size |-> size]
  ELSE [list |-> list, size |-> size]

\* ClockReplacer::Pin
Pin(list, size, frame_id) ==
  IF list[frame_id].isPin = FALSE
  THEN [list |-> [list EXCEPT ![frame_id].isPin = TRUE], size |-> size - 1]
  ELSE [list |-> list, size |-> size]

\* ClockReplacer::Unpin that leaves the slot pinned
UnpinKeepsPin(list, size, frame_id) == [list |-> list, size |-> size]

\* ClockReplacer::Unpin
Unpin(list, size, frame_id) ==
  IF list[frame_id].isPin = TRUE
  THEN [list |-> [list EXCEPT ![frame_id].isPin = FALSE, ![frame_id].isRef = TRUE],
        size |-> size + 1]
  ELSE [list |-> list, size |-> size]

\* ====================================================== page table helpers

\* std::unordered_map::insert : an existing key keeps its value
PageTableInsert(pt, pid, f) ==
  IF pid \in DOMAIN pt THEN pt ELSE [x \in DOMAIN pt \cup {pid} |-> IF x = pid THEN f ELSE pt[x]]

\* std::unordered_map::erase(key)
PageTableErase(pt, pid) == [x \in DOMAIN pt \ {pid} |-> pt[x]]

\* DiskManager::ReadPage : bytes stored for the page, zeros when never written
ReadPage(d, pid) == IF pid \in DOMAIN d THEN d[pid] ELSE 0

\* ======================================================= BufferPoolManager

\* BufferPoolManager::FlushPageImpl as a function of (pages_, page_table_, disk)
FlushPageImpl(pg, pt, d, page_id) ==
  IF page_id \notin DOMAIN pt
  THEN [pages |-> pg, disk |-> d, wrote |-> FALSE]
  ELSE LET f == pt[page_id] IN
       IF pg[f].is_dirty = FALSE
       THEN [pages |-> pg, disk |-> d, wrote |-> FALSE]
       ELSE [pages |-> [pg EXCEPT ![f].is_dirty = FALSE],
             disk |-> [d EXCEPT ![page_id] = pg[f].data],
             wrote |-> TRUE]

\* The frame search shared by FetchPageImpl (lines 59-75) and NewPageImpl
\* (lines 148-165): front of the free list first, else a victim whose dirty
\* page is flushed and whose page table entry is erased.
FindFrame ==
  IF free_list # <<>>
  THEN [ok |-> TRUE, frame |-> Head(free_list), victim |-> INVALID_PAGE_ID,
        free_list |-> Tail(free_list), pages |-> pages, page_table |-> page_table,
        disk |-> disk, list |-> clock_replacer_list, size |-> clock_size,
        hand |-> clock_hand, wrote |-> FALSE]
  ELSE LET v == Victim(clock_replacer_list, clock_size, clock_hand) IN
       IF v.found
       THEN LET fetch_page_id == pages[v.frame].page_id
                fl == IF pages[v.frame].is_dirty
                      THEN FlushPageImpl(pages, page_table, disk, fetch_page_id)
                      ELSE [pages |-> pages, disk |-> disk, wrote |-> FALSE]
            IN [ok |-> TRUE, frame |-> v.frame, victim |-> v.frame,
                free_list |-> free_list, pages |-> fl.pages,
                page_table |-> PageTableErase(page_table, fetch_page_id),
                disk |-> fl.disk, list |-> v.list, size |-> v.size,
                hand |-> v.hand, wrote |-> fl.wrote]
       ELSE [ok |-> FALSE, frame |-> INVALID_PAGE_ID, victim |-> INVALID_PAGE_ID,
             free_list |-> free_list, pages |-> pages, page_table |-> page_table,
             disk |-> disk, list |-> v.list, size |-> v.size, hand |-> v.hand,
             wrote |-> FALSE]

\* The record kept of the last call
Call(op, pid, frame, ok, victim, dealloc) ==
  [op |-> op, pid |-> pid, frame |-> frame, ok |-> ok, victim |-> victim,
   dealloc |-> dealloc]

\* Progress through scenario 3 of the specification: three NewPage calls,
\* all unpinned (scen = 0 while only these calls were made), then FetchPage
\* of the first page (scen = 1) and UnpinPage of it (scen = 2).
ScenNext(c) ==
  IF scen = 0 /\ c.op = "NewPage" /\ c.ok THEN 0
  ELSE IF scen = 0 /\ c.op = "UnpinPage" /\ c.ok THEN 0
  ELSE IF /\ scen = 0 /\ c.op = "FetchPage" /\ c.ok /\ c.pid = 0
          /\ next_page_id = 3
          /\ \A p \in 0 .. 2 : p \in DOMAIN page_table /\ pages[page_table[p]].pin_count = 0
       THEN 1
  ELSE IF scen = 1 /\ c.op = "UnpinPage" /\ c.ok /\ c.pid = 0 THEN 2
  ELSE -1

\* Book-keeping of a call: its record, the scenario progress, the call count
Record(c) ==
  /\ last' = c
  /\ scen' = ScenNext(c)
  /\ ops' = ops + 1
  /\ UNCHANGED flush_iter

\* BufferPoolManager::FetchPageImpl
FetchPage(page_id) ==
  IF page_id \in DOMAIN page_table
  THEN LET f == page_table[page_id]
           r == Pin(clock_replacer_list, clock_size, f)
           c == Call("FetchPage", page_id, f, TRUE, INVALID_PAGE_ID, FALSE)
       IN /\ pages[f].pin_count < MaxPin
          /\ clock_replacer_list' = r.list
          /\ clock_size' = r.size
          /\ pages' = [pages EXCEPT ![f].pin_count = @ + 1]
          /\ Record(c)
          /\ UNCHANGED <<page_table, free_list, clock_hand, disk, next_page_id,
                         expect>>
  ELSE LET r == FindFrame IN
       IF ~r.ok
       THEN LET c == Call("FetchPage", page_id, INVALID_PAGE_ID, FALSE, INVALID_PAGE_ID, FALSE)
            IN /\ clock_replacer_list' = r.list
               /\ clock_size' = r.size
               /\ clock_hand' = r.hand
               /\ Record(c)
               /\ UNCHANGED <<pages, page_table, free_list, disk, next_page_id,
                              expect>>
       ELSE LET f == r.frame
                c == Call("FetchPage", page_id, f, TRUE, r.victim, FALSE)
            IN /\ free_list' = r.free_list
               /\ clock_replacer_list' = r.list
               /\ clock_size' = r.size
               /\ clock_hand' = r.hand
               /\ disk' = r.disk
               /\ pages' = [r.pages EXCEPT ![f] =
                              [page_id |-> page_id, pin_count |-> 1,
                               is_dirty |-> FALSE, data |-> ReadPage(r.disk, page_id)]]
               /\ page_table' = PageTableInsert(r.page_table, page_id, f)
               /\ Record(c)
               /\ UNCHANGED <<next_page_id, expect>>

\* BufferPoolManager::UnpinPageImpl
UnpinPage(page_id, is_dirty) ==
  IF page_id \notin DOMAIN page_table
  THEN LET c == Call("UnpinPage", page_id, INVALID_PAGE_ID, FALSE, INVALID_PAGE_ID, FALSE)
       IN /\ Record(c)
          /\ UNCHANGED <<pages, page_table, free_list, clock_replacer_list,
                         clock_size, clock_hand, disk, next_page_id, expect>>
  ELSE LET f == page_table[page_id] IN
       IF pages[f].pin_count <= 0
       THEN LET c == Call("UnpinPage", page_id, f, FALSE, INVALID_PAGE_ID, FALSE)
            IN /\ Record(c)
               /\ UNCHANGED <<pages, page_table, free_list, clock_replacer_list,
                              clock_size, clock_hand, disk, next_page_id,
                              expect>>
       ELSE LET pg == [pages EXCEPT ![f].is_dirty = (is_dirty \/ @),
                                    ![f].pin_count = @ - 1]
                r == IF pg[f].pin_count = 0
                     THEN Unpin(clock_replacer_list, clock_size, f)
                     ELSE [list |-> clock_replacer_list, size |-> clock_size]
                c == Call("UnpinPage", page_id, f, TRUE, INVALID_PAGE_ID, FALSE)
            IN /\ pages' = pg
               /\ clock_replacer_list' = r.list
               /\ clock_size' = r.size
               /\ expect' = IF is_dirty THEN [expect EXCEPT ![page_id] = pages[f].data]
                            ELSE expect
               /\ Record(c)
               /\ UNCHANGED <<page_table, free_list, clock_hand, disk,
                              next_page_id>>

\* BufferPoolManager::FlushPageImpl, called as FlushPage
FlushPage(page_id) ==
  LET r == FlushPageImpl(pages, page_table, disk, page_id)
      c == Call("FlushPage", page_id, INVALID_PAGE_ID, FALSE, INVALID_PAGE_ID, FALSE)
  IN /\ pages' = r.pages
     /\ disk' = r.disk
     /\ Record(c)
     /\ UNCHANGED <<page_table, free_list, clock_replacer_list, clock_size,
                    clock_hand, next_page_id, expect>>

\* BufferPoolManager::NewPageImpl
NewPage ==
  LET r == FindFrame IN
  IF ~r.ok
  THEN LET c == Call("NewPage", INVALID_PAGE_ID, INVALID_PAGE_ID, FALSE, INVALID_PAGE_ID, FALSE)
       IN /\ clock_replacer_list' = r.list
          /\ clock_size' = r.size
          /\ clock_hand' = r.hand
          /\ Record(c)
          /\ UNCHANGED <<pages, page_table, free_list, disk, next_page_id,
                         expect>>
  ELSE LET f == r.frame
           page_id == next_page_id
           c == Call("NewPage", page_id, f, TRUE, r.victim, FALSE)
       IN /\ next_page_id < MaxPages
          /\ next_page_id' = next_page_id + 1
          /\ free_list' = r.free_list
          /\ clock_replacer_list' = r.list
          /\ clock_size' = r.size
          /\ clock_hand' = r.hand
          /\ disk' = r.disk
          /\ pages' = [r.pages EXCEPT ![f] =
                         [page_id |-> page_id, pin_count |-> 1,
                          is_dirty |-> FALSE, data |-> ReadPage(r.disk, page_id)]]
          /\ page_table' = PageTableInsert(r.page_table, page_id, f)
          /\ Record(c)
          /\ UNCHANGED <<expect>>

\* DeletePageImpl lines 203-210 read iter->second after
\* page_table_.erase(page_id) has destroyed the node iter points to: the
\* frame id read from the freed node is the one stored there or whatever the
\* allocator left in its place.
DanglingSecond(f) == Frames

\* DeletePageImpl with the test of line 199 sparing one pin
SomeoneElseIsUsing(pg, f) == pg[f].pin_count > 1

\* DeletePageImpl line 199: "Someone is using the page"
SomeoneIsUsing(pg, f) == pg[f].pin_count > 0

\* BufferPoolManager::DeletePageImpl
DeletePage(page_id) ==
  IF page_id \notin DOMAIN page_table
  THEN LET c == Call("DeletePage", page_id, INVALID_PAGE_ID, TRUE, INVALID_PAGE_ID, TRUE)
       IN /\ Record(c)
          /\ expect' = [expect EXCEPT ![page_id] = NoData]
          /\ UNCHANGED <<pages, page_table, free_list, clock_replacer_list,
                         clock_size, clock_hand, disk, next_page_id>>
  ELSE LET f == page_table[page_id] IN
       IF SomeoneIsUsing(pages, f)
       THEN LET c == Call("DeletePage", page_id, f, FALSE, INVALID_PAGE_ID, FALSE)
            IN /\ Record(c)
               /\ expect' = [expect EXCEPT ![page_id] = NoData]
               /\ UNCHANGED <<pages, page_table, free_list, clock_replacer_list,
                              clock_size, clock_hand, disk, next_page_id>>
       ELSE \E g \in DanglingSecond(f) :
              LET c == Call("DeletePage", page_id, g, TRUE, INVALID_PAGE_ID, TRUE)
              IN /\ page_table' = PageTableErase(page_table, page_id)
                 /\ pages' = [pages EXCEPT ![g] =
                                [page_id |-> INVALID_PAGE_ID, pin_count |-> 0,
                                 is_dirty |-> FALSE, data |-> 0]]
                 /\ free_list' = Append(free_list, g)
                 /\ expect' = [expect EXCEPT ![page_id] = NoData]
                 /\ Record(c)
                 /\ UNCHANGED <<clock_replacer_list, clock_size, clock_hand,
                                disk, next_page_id>>

RECURSIVE FlushFrames(_, _, _, _)
\* The loop of FlushAllPagesImpl over frames i .. pool_size_ - 1
FlushFrames(pg, pt, d, i) ==
  IF i >= PoolSize THEN [pages |-> pg, disk |-> d]
  ELSE LET r == FlushPageImpl(pg, pt, d, pg[i].page_id)
       IN FlushFrames(r.pages, pt, r.disk, i + 1)

\* BufferPoolManager::FlushAllPagesImpl
FlushAllPages ==
  LET r == FlushFrames(pages, page_table, disk, 0)
      c == Call("FlushAllPages", INVALID_PAGE_ID, INVALID_PAGE_ID, TRUE, INVALID_PAGE_ID, FALSE)
  IN /\ pages' = r.pages
     /\ disk' = r.disk
     /\ Record(c)
     /\ UNCHANGED <<page_table, free_list, clock_replacer_list, clock_size,
                    clock_hand, next_page_id, expect>>

\* A caller that holds a pin on page_id writes bytes d through the frame
\* pointer FetchPage/NewPage gave it (as the index does through GetData()).
WriteData(page_id, d) ==
  /\ page_id \in DOMAIN page_table
  /\ pages[page_table[page_id]].pin_count > 0
  /\ pages[page_table[page_id]].page_id = page_id
  /\ pages[page_table[page_id]].data # d
  /\ pages' = [pages EXCEPT ![page_table[page_id]].data = d]
  /\ expect' = [expect EXCEPT ![page_id] = NoData]
  /\ Record(Call("WriteData", page_id, page_table[page_id], TRUE, INVALID_PAGE_ID, FALSE))
  /\ UNCHANGED <<page_table, free_list, clock_replacer_list, clock_size,
                 clock_hand, disk, next_page_id>>

\* FlushPageImpl takes no latch_ (FetchPageImpl and NewPageImpl call it with
\* latch_ held), so a FlushPage call runs beside the calls of other threads.
\* Lines 121-131: the page is found and dirty, its bytes are written to disk.
FlushPageWrite(page_id) ==
  /\ flush_iter = INVALID_PAGE_ID
  /\ ops < MaxOps
  /\ page_id \in DOMAIN page_table
  /\ pages[page_table[page_id]].is_dirty
  /\ disk' = [disk EXCEPT ![page_id] = pages[page_table[page_id]].data]
  /\ flush_iter' = page_id
  /\ last' = Call("FlushPageWrite", page_id, page_table[page_id], FALSE,
                  INVALID_PAGE_ID, FALSE)
  /\ scen' = -1
  /\ ops' = ops + 1
  /\ UNCHANGED <<pages, page_table, free_list, clock_replacer_list, clock_size,
                 clock_hand, next_page_id, expect>>
  /\ UNCHANGED htvars

\* Line 132 of the same call: is_dirty_ = false on the frame iter->second
\* names; iter dangles when the entry was erased in between.
FlushPageClear ==
  /\ flush_iter # INVALID_PAGE_ID
  /\ \E f \in (IF flush_iter \in DOMAIN page_table
                THEN {page_table[flush_iter]} ELSE Frames) :
       /\ pages' = [pages EXCEPT ![f].is_dirty = FALSE]
       /\ last' = Call("FlushPageClear", flush_iter, f, FALSE, INVALID_PAGE_ID, FALSE)
  /\ flush_iter' = INVALID_PAGE_ID
  /\ scen' = -1
  /\ UNCHANGED <<page_table, free_list, clock_replacer_list, clock_size,
                 clock_hand, disk, next_page_id, expect, ops>>
  /\ UNCHANGED htvars

\* BufferPoolManager::BufferPoolManager
BufferPoolInit ==
  /\ pages = [f \in Frames |-> [page_id |-> INVALID_PAGE_ID, pin_count |-> 0,
                                is_dirty |-> FALSE, data |-> 0]]
  /\ page_table = [x \in {} |-> 0]
  /\ free_list = [i \in 1 .. PoolSize |-> i - 1]
  /\ ClockInit
  /\ disk = [p \in PageIds |-> 0]
  /\ next_page_id = 0
  /\ last = Call("init", INVALID_PAGE_ID, INVALID_PAGE_ID, TRUE, INVALID_PAGE_ID, FALSE)
  /\ scen = 0
  /\ ops = 0
  /\ expect = [p \in PageIds |-> NoData]
  /\ flush_iter = INVALID_PAGE_ID

\* The replacer called directly: Pin, Unpin and Victim in any order.  The
\* pool's frames are left as the constructor made them.
ReplacerCall(c) ==
  /\ last' = c
  /\ UNCHANGED <<pages, page_table, free_list, disk, next_page_id, scen, expect,
                 ops, flush_iter>>
  /\ UNCHANGED htvars

ReplacerPin(frame_id) ==
  LET r == Pin(clock_replacer_list, clock_size, frame_id) IN
  /\ clock_replacer_list' = r.list
  /\ clock_size' = r.size
  /\ UNCHANGED clock_hand
  /\ ReplacerCall(Call("Pin", INVALID_PAGE_ID, frame_id, TRUE, INVALID_PAGE_ID, FALSE))

ReplacerUnpin(frame_id) ==
  LET r == Unpin(clock_replacer_list, clock_size, frame_id) IN
  /\ clock_replacer_list' = r.list
  /\ clock_size' = r.size
  /\ UNCHANGED clock_hand
  /\ ReplacerCall(Call("Unpin", INVALID_PAGE_ID, frame_id, TRUE, INVALID_PAGE_ID, FALSE))

ReplacerVictim ==
  LET v == Victim(clock_replacer_list, clock_size, clock_hand) IN
  /\ clock_replacer_list' = v.list
  /\ clock_size' = v.size
  /\ clock_hand' = v.hand
  /\ ReplacerCall(Call("Victim", INVALID_PAGE_ID, v.frame, v.found, INVALID_PAGE_ID, FALSE))

NextReplacer ==
  \/ \E f \in Frames : ReplacerPin(f)
  \/ \E f \in Frames : ReplacerUnpin(f)
  \/ ReplacerVictim

Allocated == 0 .. (next_page_id - 1)

\* The calls of the buffer pool made by its users; the index is not touched
Next ==
  \/ \E p \in Allocated : ops < MaxOps /\ FetchPage(p) /\ UNCHANGED htvars
  \/ \E p \in Allocated : \E d \in BOOLEAN :
        ops < MaxOps /\ UnpinPage(p, d) /\ UNCHANGED htvars
  \/ \E p \in Allocated : ops < MaxOps /\ FlushPage(p) /\ UNCHANGED htvars
  \/ ops < MaxOps /\ NewPage /\ UNCHANGED htvars
  \/ \E p \in Allocated : ops < MaxOps /\ DeletePage(p) /\ UNCHANGED htvars
  \/ ops < MaxOps /\ FlushAllPages /\ UNCHANGED htvars
  \/ \E p \in Allocated : \E d \in Data :
        ops < MaxOps /\ WriteData(p, d) /\ UNCHANGED htvars

\* The calls scenario 3 of the specification is made of: NewPage, UnpinPage
\* and FetchPage
NextScen ==
  \/ ops < MaxScenOps /\ NewPage /\ UNCHANGED htvars
  \/ \E p \in Allocated : \E d \in BOOLEAN :
        ops < MaxScenOps /\ UnpinPage(p, d) /\ UNCHANGED htvars
  \/ \E p \in Allocated : ops < MaxScenOps /\ FetchPage(p) /\ UNCHANGED htvars

\* The public calls with FlushPage running beside them
NextRace ==
  \/ Next
  \/ \E p \in Allocated : FlushPageWrite(p)
  \/ FlushPageClear


\* ==================================================== HashTableBlockPage

Slots == 0 .. (BLOCK_ARRAY_SIZE - 1)
Keys == 0 .. MaxKey
Values == 0 .. MaxVal

\* The sizes the public Resize is called with
ResizeArgs == {0, 1, BLOCK_ARRAY_SIZE, BLOCK_ARRAY_SIZE * NumBuckets}
Threads == {1}

\* The threads of the concurrent runs, and the values they insert and remove
ThreadsMT == {1, 2}
ValuesMT == {0}

\* Number of bytes of a bitmap of BLOCK_ARRAY_SIZE bits
BitmapBytes == (BLOCK_ARRAY_SIZE - 1) \div 8 + 1

\* byte & (1 << i) as a truth value
TestBit(byte, i) == (byte \div (2 ^ i)) % 2 = 1

\* byte |= (1 << i)
SetBit(byte, i) == IF TestBit(byte, i) THEN byte ELSE byte + 2 ^ i

\* byte &= ~(1 << i)
ClearBit(byte, i) == IF TestBit(byte, i) THEN byte - 2 ^ i ELSE byte

\* HashTableBlockPage::IsOccupied
IsOccupied(bp, bucket_ind) == TestBit(bp.occupied[bucket_ind \div 8], bucket_ind % 8)

\* HashTableBlockPage::IsReadable
IsReadable(bp, bucket_ind) == TestBit(bp.readable[bucket_ind \div 8], bucket_ind % 8)

\* HashTableBlockPage::KeyAt
KeyAt(bp, bucket_ind) == bp.array[bucket_ind].first

\* HashTableBlockPage::ValueAt
ValueAt(bp, bucket_ind) == bp.array[bucket_ind].second

\* HashTableBlockPage::Insert : the page afterwards and the value returned
BlockInsert(bp, bucket_ind, key, value) ==
  IF ~IsReadable(bp, bucket_ind)
  THEN [ok |-> TRUE,
        page |-> [bp EXCEPT !.array[bucket_ind] = [first |-> key, second |-> value],
                            !.occupied[bucket_ind \div 8] = SetBit(@, bucket_ind % 8),
                            !.readable[bucket_ind \div 8] = SetBit(@, bucket_ind % 8)]]
  ELSE [ok |-> FALSE, page |-> bp]

\* HashTableBlockPage::Remove clearing the occupied bit as well
BlockRemoveFreesSlot(bp, bucket_ind) ==
  IF IsOccupied(bp, bucket_ind)
  THEN [bp EXCEPT !.readable[bucket_ind \div 8] = ClearBit(@, bucket_ind % 8),
                  !.occupied[bucket_ind \div 8] = ClearBit(@, bucket_ind % 8)]
  ELSE bp

\* HashTableBlockPage::Remove
BlockRemove(bp, bucket_ind) ==
  IF IsOccupied(bp, bucket_ind)
  THEN [bp EXCEPT !.readable[bucket_ind \div 8] = ClearBit(@, bucket_ind % 8)]
  ELSE bp

\* ================================================== pages of the index

\* The bytes of a zeroed page, as Page::ResetMemory leaves them and as the
\* disk manager returns them for a page that was never written
ZeroBytes ==
  [size |-> 0, block_page_ids |-> <<>>,
   array |-> [i \in Slots |-> [first |-> 0, second |-> 0]],
   occupied |-> [b \in 0 .. (BitmapBytes - 1) |-> 0],
   readable |-> [b \in 0 .. (BitmapBytes - 1) |-> 0]]

\* A page NewPage returns, once unpinned: zeroed memory, latch free, pin
\* count 0, is_dirty_ false, nothing of it on disk yet.  Header pages use
\* size and block_page_ids, block pages use array and the two bitmaps.
ZeroPage ==
  [size |-> 0, block_page_ids |-> <<>>,
   array |-> [i \in Slots |-> [first |-> 0, second |-> 0]],
   occupied |-> [b \in 0 .. (BitmapBytes - 1) |-> 0],
   readable |-> [b \in 0 .. (BitmapBytes - 1) |-> 0],
   r |-> 0, w |-> FALSE, pin |-> 0, is_dirty |-> FALSE, disk |-> ZeroBytes]

\* GetData() of page p: the bytes of the frame that holds it
BytesOf(p) ==
  [size |-> p.size, block_page_ids |-> p.block_page_ids, array |-> p.array,
   occupied |-> p.occupied, readable |-> p.readable]

\* Page p with the bytes b read into its frame
WithBytes(p, b) ==
  [p EXCEPT !.size = b.size, !.block_page_ids = b.block_page_ids,
            !.array = b.array, !.occupied = b.occupied, !.readable = b.readable]

\* HashTableHeaderPage::NumBlocks
NumBlocks(hp) == Len(hp.block_page_ids)

\* HashTableHeaderPage::GetBlockPageId
GetBlockPageId(hp, block_index) == hp.block_page_ids[block_index + 1]

\* HashFunction::GetHash
GetHash(key) == key

\* Page::RLatch can be taken
CanRLatch(pid) == ~ht_pages[pid].w

\* Page::WLatch can be taken
CanWLatch(pid) == ~ht_pages[pid].w /\ ht_pages[pid].r = 0

\* Pages pg with the pages of the set ids added as zeroed pages
WithNewPages(pg, ids) ==
  [x \in DOMAIN pg \cup ids |-> IF x \in ids THEN ZeroPage ELSE pg[x]]

\* BufferPoolManager::DeletePage(pid): the page is gone unless it is pinned
WithoutPage(pg, pid) ==
  IF pg[pid].pin > 0 THEN pg ELSE [x \in DOMAIN pg \ {pid} |-> pg[x]]

\* What is noted of the table when a call is made: whether the pair is in the
\* reference multimap, whether a readable slot holds it, whether every slot
\* of the table the constructor made is live and the pair is new, and then
\* the size and the live pairs; for a call of Resize, the number of block
\* pages the header lists
NoNote == [present |-> FALSE, live |-> FALSE, full |-> FALSE, size |-> 0, pairs |-> {},
           blocks |-> 0]

\* LinearProbeHashTable::LinearProbeHashTable : header page 0 listing
\* num_buckets fresh block pages, nothing latched; the header was unpinned
\* with is_dirty = true (line 49), the block pages with false (line 44)
HashTableInitFor(T) ==
  /\ ht_pages = [x \in 0 .. NumBuckets |->
                   IF x = 0
                   THEN [ZeroPage EXCEPT !.size = NumBuckets,
                                         !.block_page_ids = [i \in 1 .. NumBuckets |-> i],
                                         !.is_dirty = TRUE]
                   ELSE ZeroPage]
  /\ header_page_id = 0
  /\ ht_next_page_id = NumBuckets + 1
  /\ table_latch = [r |-> 0, w |-> FALSE]
  /\ th = [t \in T |-> <<>>]
  /\ ret = [t \in T |-> [fn |-> "none", key |-> 0, value |-> 0, size_arg |-> 0,
                               ok |-> FALSE, result |-> <<>>, at_call |-> NoNote]]
  /\ ref = {}
  /\ calls = 0
  /\ filled = FALSE

HashTableInit == HashTableInitFor(Threads)

\* ------------------------------------------------------------ call stacks

Top(t) == th[t][Len(th[t])]

Idle(t) == th[t] = <<>>

\* A fresh activation record of fn
Frame(fn, pc, key, value, size_arg) ==
  [fn |-> fn, pc |-> pc, key |-> key, value |-> value, size_arg |-> size_arg,
   page |-> INVALID_PAGE_ID, ht_length |-> 0, index |-> 0, block_index |-> 0,
   bucket_index |-> 0, block_page_id |-> INVALID_PAGE_ID, result |-> <<>>,
   new_header |-> INVALID_PAGE_ID, old_page |-> INVALID_PAGE_ID, old_len |-> 0,
   at_call |-> NoNote, held |-> {}]

SetTop(stack, f) == [stack EXCEPT ![Len(stack)] = f]

Pop(stack) == SubSeq(stack, 1, Len(stack) - 1)

\* The live (key, value) pairs of the table the current header lists
LivePairs ==
  LET hp == ht_pages[header_page_id] IN
  {kv \in Keys \X Values :
     \E b \in 1 .. NumBlocks(hp) : \E i \in Slots :
        LET bp == ht_pages[hp.block_page_ids[b]] IN
          IsReadable(bp, i) /\ KeyAt(bp, i) = kv[1] /\ ValueAt(bp, i) = kv[2]}

\* Every slot of the table header page hid of pg lists holds a live entry
TableFullOf(pg, hid) ==
  \A b \in 1 .. NumBlocks(pg[hid]) : \A i \in Slots :
     IsReadable(pg[pg[hid].block_page_ids[b]], i)

TableFull == TableFullOf(ht_pages, header_page_id)

\* LinearProbeHashTable::GetSize : the value it returns
TableSize == BLOCK_ARRAY_SIZE * NumBlocks(ht_pages[header_page_id])

Note(key, value) ==
  LET full == header_page_id = 0 /\ TableFull /\ <<key, value>> \notin LivePairs IN
  [present |-> <<key, value>> \in ref,
   live |-> <<key, value>> \in LivePairs,
   full |-> full,
   size |-> IF full THEN TableSize ELSE 0,
   pairs |-> IF full THEN LivePairs ELSE {},
   blocks |-> 0]

\* Page::RLatch / RUnlatch / WLatch / WUnlatch on page pid of pg
RLatch(pg, pid) == [pg EXCEPT ![pid].r = @ + 1]
RUnlatch(pg, pid) == [pg EXCEPT ![pid].r = @ - 1]
WLatch(pg, pid) == [pg EXCEPT ![pid].w = TRUE]
WUnlatch(pg, pid) == [pg EXCEPT ![pid].w = FALSE]

\* BufferPoolManager::FetchPage on a resident page of the index
Fetched(pg, pid) == [pg EXCEPT ![pid].pin = @ + 1]

\* BufferPoolManager::UnpinPage(pid, is_dirty) on a page of the index: the
\* flag is ORed into is_dirty_ and the pin count goes down by one
UnpinnedAs(pg, pid, is_dirty) ==
  IF pg[pid].pin > 0
  THEN [pg EXCEPT ![pid].is_dirty = @ \/ is_dirty, ![pid].pin = @ - 1]
  ELSE pg

\* UnpinPage(pid, false), the call GetValue, Insert, Remove, Resize and
\* GetSize make for every page they fetched
Unpinned(pg, pid) == UnpinnedAs(pg, pid, FALSE)

\* FetchPage(pid) followed by RLatch() / WLatch() of the page returned
FetchR(pg, pid) == RLatch(Fetched(pg, pid), pid)
FetchW(pg, pid) == WLatch(Fetched(pg, pid), pid)

\* RUnlatch() / WUnlatch() followed by UnpinPage(pid, false)
ReleaseR(pg, pid) == Unpinned(RUnlatch(pg, pid), pid)
ReleaseW(pg, pid) == Unpinned(WUnlatch(pg, pid), pid)

\* The latches an activation holds are noted as <<kind, id>>
TableR == <<"table_r", 0>>
TableW == <<"table_w", 0>>
HeaderLatch(pid) == <<"header", pid>>
BlockLatch(pid) == <<"block", pid>>

\* A call returns: its activation record is popped and, for a call made by
\* the thread itself, the returned value is recorded
\* One thread calls the index: the record of the last return and the
\* reference set of pairs are kept for such runs; they describe the calls in
\* the order they were made
Sequential == DOMAIN th = Threads

Return(t, ok, result) ==
  LET f == Top(t) IN
  /\ th' = [th EXCEPT ![t] = Pop(@)]
  /\ ret' = IF Len(th[t]) = 1 /\ Sequential
            THEN [ret EXCEPT ![t] = [fn |-> f.fn, key |-> f.key, value |-> f.value,
                                     size_arg |-> f.size_arg,
                                     ok |-> ok, result |-> result,
                                     at_call |-> f.at_call]]
            ELSE ret

\* result->push_back in GetValue; matches beyond one more than the number of
\* slots of the constructor's table are not counted
PushBack(result, v) == IF Len(result) < BLOCK_ARRAY_SIZE * NumBuckets + 1
                       THEN Append(result, v) ELSE result

\* A thread calls GetValue(key)
CallGetValue(t, key) ==
  /\ Idle(t)
  /\ calls < MaxCalls
  /\ calls' = calls + 1
  /\ th' = [th EXCEPT ![t] = <<Frame("GetValue", "rlock", key, 0, 0)>>]
  /\ UNCHANGED <<ht_pages, header_page_id, ht_next_page_id, table_latch, ret, ref, filled>>
  /\ UNCHANGED bpvars

\* A thread calls Insert(key, value)
CallInsert(t, key, value) ==
  /\ Idle(t)
  /\ calls < MaxCalls
  /\ calls' = calls + 1
  /\ th' = [th EXCEPT ![t] = <<[Frame("Insert", "rlock", key, value, 0)
                                  EXCEPT !.at_call = Note(key, value)]>>]
  /\ UNCHANGED <<ht_pages, header_page_id, ht_next_page_id, table_latch, ret, ref, filled>>
  /\ UNCHANGED bpvars

\* A thread calls Remove(key, value)
CallRemove(t, key, value) ==
  /\ Idle(t)
  /\ calls < MaxCalls
  /\ calls' = calls + 1
  /\ th' = [th EXCEPT ![t] = <<[Frame("Remove", "rlock", key, value, 0)
                                  EXCEPT !.at_call = Note(key, value)]>>]
  /\ UNCHANGED <<ht_pages, header_page_id, ht_next_page_id, table_latch, ret, ref, filled>>
  /\ UNCHANGED bpvars

\* A thread calls the public Resize(initial_size)
CallResize(t, initial_size) ==
  /\ Idle(t)
  /\ calls < MaxCalls
  /\ calls' = calls + 1
  /\ th' = [th EXCEPT ![t] =
              <<[Frame("Resize", "wlock", 0, 0, initial_size)
                   EXCEPT !.at_call.blocks = NumBlocks(ht_pages[header_page_id])]>>]
  /\ UNCHANGED <<ht_pages, header_page_id, ht_next_page_id, table_latch, ret, ref, filled>>
  /\ UNCHANGED bpvars

\* A thread calls GetSize()
CallGetSize(t) ==
  /\ Idle(t)
  /\ calls < MaxCalls
  /\ calls' = calls + 1
  /\ th' = [th EXCEPT ![t] = <<Frame("GetSize", "rlock", 0, 0, 0)>>]
  /\ UNCHANGED <<ht_pages, header_page_id, ht_next_page_id, table_latch, ret, ref, filled>>
  /\ UNCHANGED bpvars

\* table_latch_.RLock() at the start of GetValue, Insert, Remove and GetSize
TableRLock(t) ==
  /\ ~Idle(t)
  /\ Top(t).pc = "rlock"
  /\ ~table_latch.w
  /\ table_latch' = [table_latch EXCEPT !.r = @ + 1]
  /\ th' = [th EXCEPT ![t] = SetTop(@, [Top(t) EXCEPT !.pc = "hdr",
                                                      !.held = @ \cup {TableR}])]
  /\ UNCHANGED <<ht_pages, header_page_id, ht_next_page_id, ret, ref, calls, filled>>
  /\ UNCHANGED bpvars

\* FetchPage(header_page_id_), RLatch, and the computation of the start
\* bucket: GetValue 58-69, Insert 122-134, Remove 214-226 and, after Resize
\* returned, Insert 164-175
FetchHeader(t) ==
  /\ ~Idle(t)
  /\ Top(t).pc = "hdr"
  /\ Top(t).fn # "GetSize"
  /\ CanRLatch(header_page_id)
  /\ LET f == Top(t)
         hp == ht_pages[header_page_id]
         ht_length == NumBlocks(hp)
         index == GetHash(f.key) % (BLOCK_ARRAY_SIZE * ht_length)
         block_index == index \div BLOCK_ARRAY_SIZE
     IN /\ ht_pages' = FetchR(ht_pages, header_page_id)
        /\ th' = [th EXCEPT ![t] = SetTop(@,
                    [f EXCEPT !.pc = "blk", !.page = header_page_id,
                              !.held = @ \cup {HeaderLatch(header_page_id)},
                              !.ht_length = ht_length, !.index = index,
                              !.block_index = block_index,
                              !.bucket_index = index % BLOCK_ARRAY_SIZE,
                              !.block_page_id = GetBlockPageId(hp, block_index)])]
  /\ UNCHANGED <<header_page_id, ht_next_page_id, table_latch, ret, ref, calls, filled>>
  /\ UNCHANGED bpvars

\* FetchPage(block_page_id) and the latch on the block page: RLatch in
\* GetValue, WLatch in Insert and Remove
LatchBlock(t) ==
  /\ ~Idle(t)
  /\ Top(t).pc = "blk"
  /\ LET f == Top(t) IN
     IF f.fn = "GetValue"
     THEN /\ CanRLatch(f.block_page_id)
          /\ ht_pages' = FetchR(ht_pages, f.block_page_id)
     ELSE /\ CanWLatch(f.block_page_id)
          /\ ht_pages' = FetchW(ht_pages, f.block_page_id)
  /\ th' = [th EXCEPT ![t] = SetTop(@,
              [Top(t) EXCEPT !.pc = "loop",
                             !.held = @ \cup {BlockLatch(Top(t).block_page_id)}])]
  /\ UNCHANGED <<header_page_id, ht_next_page_id, table_latch, ret, ref, calls, filled>>
  /\ UNCHANGED bpvars

\* The activation record after "Switch to Another Block": next block of the
\* header, bucket 0, the new block still to be fetched and latched
NextBlock(f) ==
  LET block_index == (f.block_index + 1) % f.ht_length IN
  [f EXCEPT !.pc = "blk", !.bucket_index = 0, !.block_index = block_index,
            !.held = @ \ {BlockLatch(f.block_page_id)},
            !.block_page_id = GetBlockPageId(ht_pages[f.page], block_index)]

\* GetSize lines 358-369: the header is fetched and read-latched, the size is
\* computed, the header is unlatched and unpinned, table_latch_ is released
GetSizeStep(t) ==
  /\ ~Idle(t)
  /\ Top(t).fn = "GetSize"
  /\ Top(t).pc = "hdr"
  /\ CanRLatch(header_page_id)
  /\ ht_pages' = ReleaseR(FetchR(ht_pages, header_page_id), header_page_id)
  /\ table_latch' = [table_latch EXCEPT !.r = @ - 1]
  /\ Return(t, TRUE, <<TableSize>>)
  /\ UNCHANGED <<header_page_id, ht_next_page_id, ref, calls, filled>>
  /\ UNCHANGED bpvars

\* One iteration of the probe loop of GetValue (lines 75-104), or the exit
\* from it (lines 106-115)
GetValueStep(t) ==
  /\ ~Idle(t)
  /\ Top(t).fn = "GetValue"
  /\ Top(t).pc = "loop"
  /\ LET f == Top(t)
         bp == ht_pages[f.block_page_id]
         found == IsReadable(bp, f.bucket_index) /\ KeyAt(bp, f.bucket_index) = f.key
         result == IF found THEN PushBack(f.result, ValueAt(bp, f.bucket_index))
                   ELSE f.result
         bucket_index == f.bucket_index + 1
     IN IF ~IsOccupied(bp, f.bucket_index)
        THEN /\ ht_pages' = ReleaseR(ReleaseR(ht_pages, f.block_page_id), f.page)
             /\ table_latch' = [table_latch EXCEPT !.r = @ - 1]
             /\ Return(t, Len(f.result) > 0, f.result)
        ELSE IF bucket_index + f.block_index * BLOCK_ARRAY_SIZE = f.index
        THEN /\ ht_pages' = ReleaseR(ReleaseR(ht_pages, f.block_page_id), f.page)
             /\ table_latch' = [table_latch EXCEPT !.r = @ - 1]
             /\ Return(t, Len(result) > 0, result)
        ELSE IF bucket_index = BLOCK_ARRAY_SIZE
        THEN /\ ht_pages' = ReleaseR(ht_pages, f.block_page_id)
             /\ th' = [th EXCEPT ![t] = SetTop(@, [NextBlock(f) EXCEPT !.result = result])]
             /\ UNCHANGED <<table_latch, ret>>
        ELSE /\ th' = [th EXCEPT ![t] = SetTop(@, [f EXCEPT !.bucket_index = bucket_index,
                                                            !.result = result])]
             /\ UNCHANGED <<ht_pages, table_latch, ret>>
  /\ UNCHANGED <<header_page_id, ht_next_page_id, ref, calls, filled>>
  /\ UNCHANGED bpvars

\* One iteration of the probe loop of Insert (lines 140-196), or the exit
\* from it (lines 198-206)
InsertStep(t) ==
  /\ ~Idle(t)
  /\ Top(t).fn = "Insert"
  /\ Top(t).pc = "loop"
  /\ LET f == Top(t)
         bp == ht_pages[f.block_page_id]
         ins == BlockInsert(bp, f.bucket_index, f.key, f.value)
         bucket_index == f.bucket_index + 1
     IN IF ins.ok
        THEN /\ ht_pages' = ReleaseR(ReleaseW([ht_pages EXCEPT ![f.block_page_id] = ins.page],
                                              f.block_page_id), f.page)
             /\ table_latch' = [table_latch EXCEPT !.r = @ - 1]
             /\ Return(t, TRUE, <<>>)
             /\ ref' = IF Sequential THEN ref \cup {<<f.key, f.value>>} ELSE ref
        ELSE IF KeyAt(bp, f.bucket_index) = f.key /\ ValueAt(bp, f.bucket_index) = f.value
        THEN /\ ht_pages' = ReleaseR(ReleaseW(ht_pages, f.block_page_id), f.page)
             /\ Return(t, FALSE, <<>>)
             /\ ref' = IF Sequential THEN ref \cup {<<f.key, f.value>>} ELSE ref
             /\ UNCHANGED table_latch
        ELSE IF bucket_index + f.block_index * BLOCK_ARRAY_SIZE = f.index
        THEN /\ ht_pages' = ReleaseR(ReleaseW(ht_pages, f.block_page_id), f.page)
             /\ th' = [th EXCEPT ![t] =
                         Append(SetTop(@, [f EXCEPT !.pc = "hdr",
                                                    !.held = {TableR}]),
                                Frame("Resize", "wlock", 0, 0,
                                      f.ht_length * BLOCK_ARRAY_SIZE))]
             /\ UNCHANGED <<table_latch, ret, ref>>
        ELSE IF bucket_index = BLOCK_ARRAY_SIZE
        THEN /\ ht_pages' = ReleaseW(ht_pages, f.block_page_id)
             /\ th' = [th EXCEPT ![t] = SetTop(@, NextBlock(f))]
             /\ UNCHANGED <<table_latch, ret, ref>>
        ELSE /\ th' = [th EXCEPT ![t] = SetTop(@, [f EXCEPT !.bucket_index = bucket_index])]
             /\ UNCHANGED <<ht_pages, table_latch, ret, ref>>
  /\ filled' = (filled \/ TableFullOf(ht_pages', header_page_id))
  /\ UNCHANGED <<header_page_id, ht_next_page_id, calls>>
  /\ UNCHANGED bpvars

\* One iteration of the probe loop of Remove (lines 231-277), or the exit
\* from it (lines 279-286)
RemoveStep(t) ==
  /\ ~Idle(t)
  /\ Top(t).fn = "Remove"
  /\ Top(t).pc = "loop"
  /\ LET f == Top(t)
         bp == ht_pages[f.block_page_id]
         bucket_index == f.bucket_index + 1
     IN IF ~IsOccupied(bp, f.bucket_index)
        THEN /\ ht_pages' = ReleaseR(ReleaseW(ht_pages, f.block_page_id), f.page)
             /\ table_latch' = [table_latch EXCEPT !.r = @ - 1]
             /\ Return(t, FALSE, <<>>)
             /\ ref' = IF Sequential THEN ref \ {<<f.key, f.value>>} ELSE ref
        ELSE IF KeyAt(bp, f.bucket_index) = f.key /\ ValueAt(bp, f.bucket_index) = f.value
        THEN IF IsReadable(bp, f.bucket_index)
             THEN /\ ht_pages' = ReleaseR(ReleaseW(
                                   [ht_pages EXCEPT ![f.block_page_id] =
                                      BlockRemove(bp, f.bucket_index)],
                                   f.block_page_id), f.page)
                  /\ Return(t, TRUE, <<>>)
                  /\ ref' = IF Sequential THEN ref \ {<<f.key, f.value>>} ELSE ref
                  /\ UNCHANGED table_latch
             ELSE /\ ht_pages' = ReleaseR(ReleaseW(ht_pages, f.block_page_id), f.page)
                  /\ Return(t, FALSE, <<>>)
                  /\ ref' = IF Sequential THEN ref \ {<<f.key, f.value>>} ELSE ref
                  /\ UNCHANGED table_latch
        ELSE IF bucket_index + f.block_index * BLOCK_ARRAY_SIZE = f.index
        THEN /\ ht_pages' = ReleaseR(ReleaseW(ht_pages, f.block_page_id), f.page)
             /\ table_latch' = [table_latch EXCEPT !.r = @ - 1]
             /\ Return(t, FALSE, <<>>)
             /\ ref' = IF Sequential THEN ref \ {<<f.key, f.value>>} ELSE ref
        ELSE IF bucket_index = BLOCK_ARRAY_SIZE
        THEN /\ ht_pages' = ReleaseW(ht_pages, f.block_page_id)
             /\ th' = [th EXCEPT ![t] = SetTop(@, NextBlock(f))]
             /\ UNCHANGED <<table_latch, ret, ref>>
        ELSE /\ th' = [th EXCEPT ![t] = SetTop(@, [f EXCEPT !.bucket_index = bucket_index])]
             /\ UNCHANGED <<ht_pages, table_latch, ret, ref>>
  /\ UNCHANGED <<header_page_id, ht_next_page_id, calls, filled>>
  /\ UNCHANGED bpvars

\* table_latch_.WLock() at the start of Resize (line 294)
ResizeWLock(t) ==
  /\ ~Idle(t)
  /\ Top(t).pc = "wlock"
  /\ ~table_latch.w
  /\ table_latch.r = 0
  /\ table_latch' = [table_latch EXCEPT !.w = TRUE]
  /\ th' = [th EXCEPT ![t] = SetTop(@, [Top(t) EXCEPT !.pc = "alloc",
                                                      !.held = @ \cup {TableW}])]
  /\ UNCHANGED <<ht_pages, header_page_id, ht_next_page_id, ret, ref, calls, filled>>
  /\ UNCHANGED bpvars

\* Resize without the doubling of line 295
NewBucketNumSameSize(initial_size) == initial_size \div BLOCK_ARRAY_SIZE

\* Resize lines 295-296: new_size = initial_size * 2 and
\* new_bucket_num = new_size / BLOCK_ARRAY_SIZE
NewBucketNum(initial_size) == (initial_size * 2) \div BLOCK_ARRAY_SIZE

\* Resize lines 295-311: the new header page, pinned and write-latched, and
\* new_bucket_num new block pages listed in it
ResizeAlloc(t) ==
  /\ ~Idle(t)
  /\ Top(t).pc = "alloc"
  /\ LET f == Top(t)
         new_bucket_num == NewBucketNum(f.size_arg)
         new_header_page_id == ht_next_page_id
         ids == new_header_page_id .. (new_header_page_id + new_bucket_num)
         pg == WithNewPages(ht_pages, ids)
     IN /\ ht_pages' = [pg EXCEPT ![new_header_page_id] =
                          [ZeroPage EXCEPT
                             !.w = TRUE,
                             !.pin = 1,
                             !.size = new_bucket_num,
                             !.block_page_ids =
                                [i \in 1 .. new_bucket_num |-> new_header_page_id + i]]]
        /\ ht_next_page_id' = new_header_page_id + new_bucket_num + 1
        /\ th' = [th EXCEPT ![t] = SetTop(@,
                    [f EXCEPT !.pc = "old_hdr",
                              !.new_header = new_header_page_id,
                              !.held = @ \cup {HeaderLatch(new_header_page_id)}])]
  /\ UNCHANGED <<header_page_id, table_latch, ret, ref, calls, filled>>
  /\ UNCHANGED bpvars

\* Resize lines 313-317: FetchPage(header_page_id_) and RLatch of the old header
ResizeOldHeader(t) ==
  /\ ~Idle(t)
  /\ Top(t).pc = "old_hdr"
  /\ CanRLatch(header_page_id)
  /\ LET f == Top(t)
         old_len == NumBlocks(ht_pages[header_page_id])
     IN /\ ht_pages' = FetchR(ht_pages, header_page_id)
        /\ th' = [th EXCEPT ![t] = SetTop(@,
                    [f EXCEPT !.pc = IF old_len > 0 THEN "move_blk" ELSE "swap",
                              !.old_page = header_page_id, !.old_len = old_len,
                              !.held = @ \cup {HeaderLatch(header_page_id)},
                              !.block_index = 0, !.bucket_index = 0])]
  /\ UNCHANGED <<header_page_id, ht_next_page_id, table_latch, ret, ref, calls, filled>>
  /\ UNCHANGED bpvars

\* Resize lines 319-322: FetchPage and RLatch of the next old block page
ResizeLatchBlock(t) ==
  /\ ~Idle(t)
  /\ Top(t).pc = "move_blk"
  /\ LET f == Top(t)
         old_bpage_id == GetBlockPageId(ht_pages[f.old_page], f.block_index)
     IN /\ CanRLatch(old_bpage_id)
        /\ ht_pages' = FetchR(ht_pages, old_bpage_id)
        /\ th' = [th EXCEPT ![t] = SetTop(@, [f EXCEPT !.pc = "move",
                                                      !.held = @ \cup {BlockLatch(old_bpage_id)},
                                                      !.block_page_id = old_bpage_id,
                                                      !.bucket_index = 0])]
  /\ UNCHANGED <<header_page_id, ht_next_page_id, table_latch, ret, ref, calls, filled>>
  /\ UNCHANGED bpvars

\* Resize lines 324-336: one slot of the old block (a readable slot is
\* re-inserted by a call of this->Insert), or the end of the block
ResizeMove(t) ==
  /\ ~Idle(t)
  /\ Top(t).pc = "move"
  /\ LET f == Top(t)
         bp == ht_pages[f.block_page_id]
     IN IF f.bucket_index < BLOCK_ARRAY_SIZE
        THEN /\ th' = [th EXCEPT ![t] =
                         LET s == SetTop(@, [f EXCEPT !.bucket_index = @ + 1]) IN
                         IF IsReadable(bp, f.bucket_index)
                         THEN Append(s, Frame("Insert", "rlock",
                                              KeyAt(bp, f.bucket_index),
                                              ValueAt(bp, f.bucket_index), 0))
                         ELSE s]
             /\ UNCHANGED ht_pages
        ELSE /\ ht_pages' = WithoutPage(ReleaseR(ht_pages, f.block_page_id),
                                         f.block_page_id)
             /\ th' = [th EXCEPT ![t] = SetTop(@,
                         [f EXCEPT !.block_index = @ + 1,
                                   !.held = @ \ {BlockLatch(f.block_page_id)},
                                   !.pc = IF f.block_index + 1 < f.old_len
                                          THEN "move_blk" ELSE "swap"])]
  /\ UNCHANGED <<header_page_id, ht_next_page_id, table_latch, ret, ref, calls, filled>>
  /\ UNCHANGED bpvars

\* Resize lines 338-347: the header page id is swapped, the old header is
\* unlatched, unpinned and deleted, table_latch_ is released; the new header
\* stays write-latched
ResizeSwap(t) ==
  /\ ~Idle(t)
  /\ Top(t).pc = "swap"
  /\ LET f == Top(t) IN
       /\ header_page_id' = f.new_header
       /\ ht_pages' = WithoutPage(ReleaseR(ht_pages, f.old_page), f.old_page)
  /\ table_latch' = [table_latch EXCEPT !.w = FALSE]
  /\ Return(t, TRUE, <<>>)
  /\ UNCHANGED <<ht_next_page_id, ref, calls, filled>>
  /\ UNCHANGED bpvars

NextHT ==
  \/ \E t \in Threads : \E k \in Keys : CallGetValue(t, k)
  \/ \E t \in Threads : \E k \in Keys : \E v \in Values : CallInsert(t, k, v)
  \/ \E t \in Threads : \E k \in Keys : \E v \in Values : CallRemove(t, k, v)
  \/ \E t \in Threads : \E n \in ResizeArgs : CallResize(t, n)
  \/ \E t \in Threads : CallGetSize(t)
  \/ \E t \in Threads : TableRLock(t)
  \/ \E t \in Threads : FetchHeader(t)
  \/ \E t \in Threads : LatchBlock(t)
  \/ \E t \in Threads : GetSizeStep(t)
  \/ \E t \in Threads : GetValueStep(t)
  \/ \E t \in Threads : InsertStep(t)
  \/ \E t \in Threads : RemoveStep(t)
  \/ \E t \in Threads : ResizeWLock(t)
  \/ \E t \in Threads : ResizeAlloc(t)
  \/ \E t \in Threads : ResizeOldHeader(t)
  \/ \E t \in Threads : ResizeLatchBlock(t)
  \/ \E t \in Threads : ResizeMove(t)
  \/ \E t \in Threads : ResizeSwap(t)

\* HashTableBlockPage::Insert and ::Remove called directly on the first block
\* page of the constructor's table, as the index calls them on a latched page
BlockPageInsert(bucket_ind, key, value) ==
  /\ calls < MaxBlockOps
  /\ ht_pages' = [ht_pages EXCEPT ![1] = BlockInsert(@, bucket_ind, key, value).page]
  /\ calls' = calls + 1
  /\ UNCHANGED <<header_page_id, ht_next_page_id, table_latch, th, ret, ref, filled>>
  /\ UNCHANGED bpvars

BlockPageRemove(bucket_ind) ==
  /\ calls < MaxBlockOps
  /\ ht_pages' = [ht_pages EXCEPT ![1] = BlockRemove(@, bucket_ind)]
  /\ calls' = calls + 1
  /\ UNCHANGED <<header_page_id, ht_next_page_id, table_latch, th, ret, ref, filled>>
  /\ UNCHANGED bpvars

NextBlockPage ==
  \/ \E i \in Slots : \E k \in Keys : \E v \in Values : BlockPageInsert(i, k, v)
  \/ \E i \in Slots : BlockPageRemove(i)

\* The buffer pool takes the frame of page pid for another page and the
\* index fetches pid again: a dirty page is written to disk first, and the
\* frame is then filled with the bytes the disk holds for pid.  Only a page
\* nobody has pinned can be the victim.
EvictPage(pid) ==
  /\ pid \in DOMAIN ht_pages
  /\ ht_pages[pid].pin = 0
  /\ LET p == ht_pages[pid]
         on_disk == IF p.is_dirty THEN BytesOf(p) ELSE p.disk
     IN ht_pages' = [ht_pages EXCEPT ![pid] =
                       [WithBytes(p, on_disk) EXCEPT !.is_dirty = FALSE, !.disk = on_disk]]
  /\ UNCHANGED <<header_page_id, ht_next_page_id, table_latch, th, ret, ref, calls, filled>>
  /\ UNCHANGED bpvars

\* The steps thread t takes inside a call
StepHT(t) ==
  \/ TableRLock(t)
  \/ FetchHeader(t)
  \/ LatchBlock(t)
  \/ GetSizeStep(t)
  \/ GetValueStep(t)
  \/ InsertStep(t)
  \/ RemoveStep(t)
  \/ ResizeWLock(t)
  \/ ResizeAlloc(t)
  \/ ResizeOldHeader(t)
  \/ ResizeLatchBlock(t)
  \/ ResizeMove(t)
  \/ ResizeSwap(t)

\* The same calls, at most MaxFewCalls of them in a run
NextFew ==
  \/ \E t \in Threads : \E k \in Keys : calls < MaxFewCalls /\ CallGetValue(t, k)
  \/ \E t \in Threads : \E k \in Keys : \E v \in Values :
        calls < MaxFewCalls /\ CallInsert(t, k, v)
  \/ \E t \in Threads : \E k \in Keys : \E v \in Values :
        calls < MaxFewCalls /\ CallRemove(t, k, v)
  \/ \E t \in Threads : \E n \in ResizeArgs : calls < MaxFewCalls /\ CallResize(t, n)
  \/ \E t \in Threads : calls < MaxFewCalls /\ CallGetSize(t)
  \/ \E t \in Threads : StepHT(t)

Init == BufferPoolInit /\ HashTableInit

Spec == Init /\ [][Next]_vars

SpecScen == Init /\ [][NextScen]_vars

SpecReplacer == Init /\ [][NextReplacer]_vars

SpecRace == Init /\ [][NextRace]_vars

SpecHT == Init /\ [][NextHT]_vars

SpecFew == Init /\ [][NextFew]_vars

SpecBlockPage == Init /\ [][NextBlockPage]_vars

\* GetValue, Insert and Remove calls of one thread on a buffer pool that may
\* evict any page of the index nobody has pinned
StepEvict(t) ==
  \/ TableRLock(t)
  \/ FetchHeader(t)
  \/ LatchBlock(t)
  \/ GetValueStep(t)
  \/ InsertStep(t)
  \/ RemoveStep(t)

NextEvict ==
  \/ \E t \in Threads : \E k \in Keys : calls < MaxFewCalls /\ CallGetValue(t, k)
  \/ \E t \in Threads : \E k \in Keys : \E v \in Values :
        calls < MaxFewCalls /\ CallInsert(t, k, v)
  \/ \E t \in Threads : \E k \in Keys : \E v \in Values :
        calls < MaxFewCalls /\ CallRemove(t, k, v)
  \/ \E t \in Threads : StepEvict(t)
  \/ \E pid \in 0 .. NumBuckets : EvictPage(pid)

SpecEvict == Init /\ [][NextEvict]_vars

\* ------------------------------------------- the constructor on a busy pool

\* What a page_id_t that was never assigned may hold
AnyPageId == PageIds \cup {INVALID_PAGE_ID}

\* Before the constructor runs: a new buffer pool, no page of the index, the
\* member header_page_id_ not yet assigned
InitExhaust ==
  /\ BufferPoolInit
  /\ ht_pages = [x \in {} |-> ZeroPage]
  /\ header_page_id \in AnyPageId
  /\ ht_next_page_id = 0
  /\ table_latch = [r |-> 0, w |-> FALSE]
  /\ th = [t \in Threads |-> <<>>]
  /\ ret = [t \in Threads |-> [fn |-> "none", key |-> 0, value |-> 0, size_arg |-> 0,
                                     ok |-> FALSE, result |-> <<>>, at_call |-> NoNote]]
  /\ ref = {}
  /\ calls = 0
  /\ filled = FALSE

\* Another user of the buffer pool takes a new page and keeps it pinned, or
\* unpins one of its pages
OtherNewPage ==
  /\ ops < MaxOtherOps
  /\ NewPage
  /\ UNCHANGED htvars

OtherUnpinPage(page_id, is_dirty) ==
  /\ ops < MaxOtherOps
  /\ page_id \notin DOMAIN ht_pages
  /\ UnpinPage(page_id, is_dirty)
  /\ UNCHANGED htvars

\* new LinearProbeHashTable(..., num_buckets, ...)
CallConstructor(t, num_buckets) ==
  /\ Idle(t)
  /\ calls = 0
  /\ calls' = 1
  /\ th' = [th EXCEPT ![t] =
              <<Frame("LinearProbeHashTable", "new_header", 0, 0, num_buckets)>>]
  /\ UNCHANGED <<ht_pages, header_page_id, ht_next_page_id, table_latch, ret, ref, filled>>
  /\ UNCHANGED bpvars

\* Lines 31-37: NewPage(&header_page_id_), then page_->WLatch() and the
\* header fields, whatever NewPage returned.  With page_ null the WLatch of
\* line 33 goes through the null pointer; the activation stays at
\* "null_frame" whatever the machine does next.
ConstructorNewHeader(t) ==
  /\ ~Idle(t)
  /\ Top(t).fn = "LinearProbeHashTable"
  /\ Top(t).pc = "new_header"
  /\ NewPage
  /\ IF last'.ok
     THEN /\ header_page_id' = last'.pid
          /\ ht_pages' = [WithNewPages(ht_pages, {last'.pid}) EXCEPT
                            ![last'.pid].pin = 1, ![last'.pid].w = TRUE,
                            ![last'.pid].size = Top(t).size_arg]
          /\ th' = [th EXCEPT ![t] = SetTop(@,
                      [Top(t) EXCEPT !.pc = IF Top(t).size_arg = 0 THEN "finish"
                                            ELSE "new_block",
                                     !.page = last'.pid,
                                     !.held = @ \cup {HeaderLatch(last'.pid)}])]
     ELSE /\ th' = [th EXCEPT ![t] = SetTop(@, [Top(t) EXCEPT !.pc = "null_frame"])]
          /\ UNCHANGED <<ht_pages, header_page_id>>
  /\ UNCHANGED <<ht_next_page_id, table_latch, ret, ref, calls, filled>>

\* Lines 41-43: page_id_t block_page_id_; NewPage(&block_page_id_);
\* AddBlockPageId(block_page_id_).  NewPageImpl writes *page_id only when it
\* has a frame (line 168), so after a null return block_page_id_ still holds
\* whatever was in its stack slot.
ConstructorNewBlock(t) ==
  /\ ~Idle(t)
  /\ Top(t).fn = "LinearProbeHashTable"
  /\ Top(t).pc = "new_block"
  /\ NewPage
  /\ \E unassigned \in AnyPageId :
       LET block_page_id_ == IF last'.ok THEN last'.pid ELSE unassigned
           pg == IF last'.ok
                 THEN [WithNewPages(ht_pages, {last'.pid}) EXCEPT ![last'.pid].pin = 1]
                 ELSE ht_pages
       IN /\ ht_pages' = [pg EXCEPT ![Top(t).page].block_page_ids =
                                      Append(@, block_page_id_)]
          /\ th' = [th EXCEPT ![t] = SetTop(@,
                      [Top(t) EXCEPT !.pc = "unpin_block",
                                     !.block_page_id = block_page_id_])]
  /\ UNCHANGED <<header_page_id, ht_next_page_id, table_latch, ret, ref, calls, filled>>

\* Line 44: UnpinPage(block_page_id_, false), and the loop test of line 40
ConstructorUnpinBlock(t) ==
  /\ ~Idle(t)
  /\ Top(t).fn = "LinearProbeHashTable"
  /\ Top(t).pc = "unpin_block"
  /\ UnpinPage(Top(t).block_page_id, FALSE)
  /\ ht_pages' = IF last'.ok /\ Top(t).block_page_id \in DOMAIN ht_pages
                 THEN Unpinned(ht_pages, Top(t).block_page_id)
                 ELSE ht_pages
  /\ th' = [th EXCEPT ![t] = SetTop(@,
              [Top(t) EXCEPT !.index = @ + 1,
                             !.pc = IF Top(t).index + 1 < Top(t).size_arg
                                    THEN "new_block" ELSE "finish"])]
  /\ UNCHANGED <<header_page_id, ht_next_page_id, table_latch, ret, ref, calls, filled>>

\* Lines 48-49: page_->WUnlatch(), UnpinPage(header_page_id_, true), and the
\* constructor returns; it has no way to report a failure
ConstructorFinish(t) ==
  /\ ~Idle(t)
  /\ Top(t).fn = "LinearProbeHashTable"
  /\ Top(t).pc = "finish"
  /\ UnpinPage(header_page_id, TRUE)
  /\ ht_pages' = IF last'.ok
                 THEN UnpinnedAs(WUnlatch(ht_pages, header_page_id), header_page_id, TRUE)
                 ELSE WUnlatch(ht_pages, header_page_id)
  /\ Return(t, TRUE, <<>>)
  /\ UNCHANGED <<header_page_id, ht_next_page_id, table_latch, ref, calls, filled>>

NextExhaust ==
  \/ OtherNewPage
  \/ \E p \in Allocated : \E d \in BOOLEAN : OtherUnpinPage(p, d)
  \/ \E t \in Threads : \E n \in 1 .. NumBuckets : CallConstructor(t, n)
  \/ \E t \in Threads : ConstructorNewHeader(t)
  \/ \E t \in Threads : ConstructorNewBlock(t)
  \/ \E t \in Threads : ConstructorUnpinBlock(t)
  \/ \E t \in Threads : ConstructorFinish(t)

SpecExhaust == InitExhaust /\ [][NextExhaust]_vars

\* Concurrent GetValue, Insert and Remove calls of two threads; Resize is
\* not called from outside, and a thread whose Insert calls Resize stops
\* there
InitMT == BufferPoolInit /\ HashTableInitFor(ThreadsMT)

StepMT(t) ==
  \/ TableRLock(t)
  \/ FetchHeader(t)
  \/ LatchBlock(t)
  \/ GetValueStep(t)
  \/ InsertStep(t)
  \/ RemoveStep(t)

NextMT ==
  \/ \E t \in ThreadsMT : \E k \in Keys : CallGetValue(t, k)
  \/ \E t \in ThreadsMT : \E k \in Keys : \E v \in ValuesMT : CallInsert(t, k, v)
  \/ \E t \in ThreadsMT : \E k \in Keys : \E v \in ValuesMT : CallRemove(t, k, v)
  \/ \E t \in ThreadsMT : StepMT(t)

SpecMT == InitMT /\ [][NextMT]_vars

\* Every thread that can take a step is scheduled again
FairSpecMT == SpecMT /\ \A t \in ThreadsMT : WF_vars(StepMT(t))

\* A running thread is scheduled again: every step of a call that can be
\* taken is eventually taken
FairSpecHT == SpecHT /\ WF_vars(NextHT)

\* ================================================================ claims

InFreeList(f) == \E i \in 1 .. Len(free_list) : free_list[i] = f

IsCandidate(f) == clock_replacer_list[f].isPin = FALSE

\* C1: every frame whose pin_count is greater than 0 has its pinned-bit set in
\* the clock replacer (it is not a victim candidate), in every reachable state.
C1_PinnedFrameNotCandidate ==
  \A f \in Frames : pages[f].pin_count > 0 => clock_replacer_list[f].isPin = TRUE

\* C2: FetchPage and NewPage never give a frame whose pin_count is greater
\* than 0 to another page: such a frame holds the same page after the call.
C2_PinnedPageNeverEvicted ==
  [][\A f \in Frames :
       (pages[f].pin_count > 0 /\ last'.op \in {"FetchPage", "NewPage"})
         => pages'[f].page_id = pages[f].page_id]_vars

\* C3: no frame is both in the free list and a victim candidate of the
\* replacer, and a frame with pin_count = 0 is in exactly one of the two.
C3_FreeListXorCandidate ==
  \A f \in Frames :
    /\ ~(InFreeList(f) /\ IsCandidate(f))
    /\ pages[f].pin_count = 0 => (InFreeList(f) \/ IsCandidate(f))

\* C4: page_table maps pid to frame f if and only if frames[f].page_id = pid
\* and pid is not INVALID; so no two frames hold the same page id and no
\* entry points at a frame holding another page.
C4_ResidencyAndTable ==
  /\ \A pid \in DOMAIN page_table :
       pid # INVALID_PAGE_ID /\ pages[page_table[pid]].page_id = pid
  /\ \A f \in Frames :
       pages[f].page_id # INVALID_PAGE_ID
         => /\ pages[f].page_id \in DOMAIN page_table
            /\ page_table[pages[f].page_id] = f

\* The frame the next Victim call of the replacer returns
NextVictim == Victim(clock_replacer_list, clock_size, clock_hand)

\* C8 (as claimed): after three NewPage calls, all unpinned, and FetchPage
\* then UnpinPage of the first page, the next Victim call returns the second
\* frame.
C8_VictimIsSecondFrame ==
  scen = 2 => (NextVictim.found /\ NextVictim.frame = 1)

\* C8 (amended): in that scenario the next Victim call returns the first
\* frame: every slot has its reference bit set by Unpin, the sweep clears all
\* three and comes back to the slot it started from.
C8_VictimIsFirstFrame ==
  scen = 2 =>
    /\ \A f \in 0 .. 2 : clock_replacer_list[f] = [isPin |-> FALSE, isRef |-> TRUE]
    /\ NextVictim.found /\ NextVictim.frame = 0

C8_ScenarioReached == scen = 2 /\ PoolSize = 3 /\ clock_size = 3

\* C9: a FetchPage or NewPage that returns null changes nothing: no page id is
\* allocated, and page table, frames, free list and replacer state (bits,
\* candidate count, clock hand) and the disk are as before the call.
C9_NullReturnChangesNothing ==
  [][(last'.op \in {"FetchPage", "NewPage"} /\ ~last'.ok)
       => UNCHANGED <<pages, page_table, free_list, clock_replacer_list,
                      clock_size, clock_hand, disk, next_page_id>>]_vars

C9_NullReturned ==
  /\ last.op \in {"FetchPage", "NewPage"}
  /\ ~last.ok
  /\ free_list = <<>>
  /\ clock_size = 0

\* A FetchPage/NewPage step that gives the frame of resident page p to
\* another page
ReusesFrameOf(p) ==
  /\ p \in DOMAIN page_table
  /\ last'.op \in {"FetchPage", "NewPage"}
  /\ last'.ok
  /\ last'.pid # p
  /\ last'.frame = page_table[p]
  /\ pages'[page_table[p]].page_id = last'.pid

SlotsHolding(k, v) ==
  LET hp == ht_pages[header_page_id] IN
  {s \in (1 .. NumBlocks(hp)) \X Slots :
     LET bp == ht_pages[hp.block_page_ids[s[1]]] IN
       IsReadable(bp, s[2]) /\ KeyAt(bp, s[2]) = k /\ ValueAt(bp, s[2]) = v}

\* Resize has neither completed nor started
NoResize ==
  /\ header_page_id = 0
  /\ \A t \in Threads : \A i \in DOMAIN th[t] : th[t][i].fn # "Resize"

\* The last call of thread t has returned and was fn
Returned(t, fn) == Idle(t) /\ ret[t].fn = fn

\* Thread t is in an Insert of a new pair that it called when every slot of
\* the table, not resized before, held a live entry
InFullInsert(t) == ~Idle(t) /\ th[t][1].fn = "Insert" /\ th[t][1].at_call.full

\* That Insert has returned true, GetSize is at least twice its value at the
\* call, and the pairs live at the call and the new pair are live
FullInsertDone(t) ==
  /\ Returned(t, "Insert")
  /\ ret[t].at_call.full
  /\ ret[t].ok
  /\ TableSize >= 2 * ret[t].at_call.size
  /\ ret[t].at_call.pairs \cup {<<ret[t].key, ret[t].value>>} \subseteq LivePairs

\* C5: an Insert of a new pair called when every slot of the table (as the
\* constructor made it) holds a live entry eventually returns true, and then GetSize is at least twice its
\* value at the call, every pair that was live at the call is still live and
\* the new pair is live.
C5_FullInsertEventuallyTrue ==
  \A t \in Threads : InFullInsert(t) ~> FullInsertDone(t)

\* C6: while the table has not been resized, at most one readable slot holds
\* any (key, value) pair; once Insert(k, v) has returned true exactly one
\* readable slot holds (k, v); and an Insert(k, v) called while a readable
\* slot holds (k, v) returns false.
C6_PairStoredAtMostOnce ==
  /\ NoResize =>
       \A k \in Keys : \A v \in Values : Cardinality(SlotsHolding(k, v)) <= 1
  /\ \A t \in Threads :
       (Returned(t, "Insert") /\ NoResize) =>
          /\ ret[t].ok => Cardinality(SlotsHolding(ret[t].key, ret[t].value)) = 1
          /\ ret[t].at_call.live => ~ret[t].ok

\* The values the reference multimap holds for key k
ValuesOf(k) == {v \in Values : <<k, v>> \in ref}

\* C7: as long as the table was never full and never resized, every call
\* returns what a reference set of (key, value) pairs returns: Insert(k, v)
\* true iff (k, v) was absent, Remove(k, v) true iff (k, v) was present,
\* GetValue(k) true iff some value is present, with exactly the values of k in
\* the set, each once.
C7_RefinesReferenceMultimap ==
  \A t \in Threads :
    (Idle(t) /\ ~filled /\ NoResize) =>
      /\ ret[t].fn = "Insert" => (ret[t].ok <=> ~ret[t].at_call.present)
      /\ ret[t].fn = "Remove" => (ret[t].ok <=> ret[t].at_call.present)
      /\ ret[t].fn = "GetValue" =>
           /\ ret[t].ok <=> (ValuesOf(ret[t].key) # {})
           /\ Len(ret[t].result) = Cardinality(ValuesOf(ret[t].key))
           /\ {ret[t].result[i] : i \in DOMAIN ret[t].result} = ValuesOf(ret[t].key)
      /\ ref = LivePairs

\* The replacer: bits, candidate count and clock hand
replacer == <<clock_replacer_list, clock_size, clock_hand>>

\* C11: DeletePage(p) of a resident page whose pin_count is greater than 0
\* returns false and changes nothing: page table, frames (metadata and
\* bytes), free list, replacer and disk are as before, and the disk manager
\* is not asked to deallocate p.
C11_DeletePinnedChangesNothing ==
  [][(/\ last'.op = "DeletePage"
      /\ last'.pid \in DOMAIN page_table
      /\ pages[page_table[last'.pid]].pin_count > 0)
       => (/\ last'.ok = FALSE
           /\ last'.dealloc = FALSE
           /\ UNCHANGED <<pages, page_table, free_list, replacer, disk,
                          next_page_id>>)]_vars

C11_DeletePinnedReturned ==
  /\ last.op = "DeletePage"
  /\ last.ok = FALSE
  /\ last.pid \in DOMAIN page_table
  /\ pages[page_table[last.pid]].pin_count > 0

\* The UnpinPage step just taken was on a page that was not resident or whose
\* frame had pin_count 0
UnpinRefused ==
  /\ last'.op = "UnpinPage"
  /\ \/ last'.pid \notin DOMAIN page_table
     \/ pages[page_table[last'.pid]].pin_count <= 0

\* The UnpinPage step just taken was on a resident page with pin_count > 0
UnpinAccepted ==
  /\ last'.op = "UnpinPage"
  /\ last'.pid \in DOMAIN page_table
  /\ pages[page_table[last'.pid]].pin_count > 0

\* C12: pin_count is never negative; UnpinPage on a page that is not resident
\* or has pin_count 0 returns false and leaves frames and replacer unchanged;
\* otherwise it returns true, pin_count goes down by exactly 1, the dirty
\* flag becomes (dirty OR is_dirty) - so a dirty frame stays dirty - and the
\* frame is a replacer candidate afterwards when pin_count reached 0, the
\* replacer being untouched when it did not.
C12_UnpinPageContract ==
  /\ [](\A f \in Frames : pages[f].pin_count >= 0)
  /\ [][UnpinRefused => (last'.ok = FALSE /\ UNCHANGED <<pages, replacer>>)]_vars
  /\ [][UnpinAccepted =>
          LET f == page_table[last'.pid] IN
            /\ last'.ok = TRUE
            /\ pages'[f].pin_count = pages[f].pin_count - 1
            /\ \E is_dirty \in BOOLEAN :
                 /\ UnpinPage(last'.pid, is_dirty)
                 /\ pages'[f].is_dirty = (pages[f].is_dirty \/ is_dirty)
            /\ \A is_dirty \in BOOLEAN :
                 UnpinPage(last'.pid, is_dirty)
                   => pages'[f].is_dirty = (pages[f].is_dirty \/ is_dirty)
            /\ pages'[f].page_id = pages[f].page_id
            /\ pages'[f].data = pages[f].data
            /\ \A g \in Frames \ {f} : pages'[g] = pages[g]
            /\ IF pages'[f].pin_count = 0
               THEN clock_replacer_list'[f].isPin = FALSE
               ELSE UNCHANGED replacer]_vars

C12_UnpinReachedZero ==
  /\ last.op = "UnpinPage"
  /\ last.ok
  /\ pages[last.frame].pin_count = 0
  /\ pages[last.frame].is_dirty
  /\ clock_replacer_list[last.frame].isPin = FALSE

\* C16: Victim returns false, changing nothing, iff the candidate count is 0;
\* otherwise it returns true with a frame whose pinned-bit was false, sets
\* that bit, lowers the candidate count by exactly one and changes no other
\* pinned-bit.  Stated of the Victim call on every reachable replacer state
\* and of every FetchPage/NewPage step that took a victim.
C16_VictimContract ==
  /\ [](LET v == NextVictim IN
          /\ v.found = FALSE <=> clock_size = 0
          /\ v.found = FALSE =>
               (v.list = clock_replacer_list /\ v.size = clock_size /\ v.hand = clock_hand)
          /\ v.found = TRUE =>
               /\ clock_replacer_list[v.frame].isPin = FALSE
               /\ v.list[v.frame].isPin = TRUE
               /\ v.size = clock_size - 1
               /\ \A g \in Frames \ {v.frame} :
                    v.list[g].isPin = clock_replacer_list[g].isPin)
  /\ [][(last'.op \in {"FetchPage", "NewPage"} /\ last'.victim # INVALID_PAGE_ID) =>
          /\ clock_replacer_list[last'.victim].isPin = FALSE
          /\ clock_replacer_list'[last'.victim].isPin = TRUE
          /\ clock_size' = clock_size - 1
          /\ \A g \in Frames \ {last'.victim} :
               clock_replacer_list'[g].isPin = clock_replacer_list[g].isPin]_vars

C16_VictimTaken ==
  /\ last.op \in {"FetchPage", "NewPage"}
  /\ last.victim # INVALID_PAGE_ID
  /\ clock_replacer_list[last.victim].isPin = TRUE

\* C15: the buffer pool calls are serialized by the pool latch, so a
\* FlushPage that runs beside UnpinPage(p, true) never leaves p resident with
\* dirty = false while the bytes p had when it was last unpinned dirty are
\* not on disk.
C15_FlushNeverLosesDirtyBytes ==
  \A p \in PageIds :
    (/\ last.op = "FlushPageClear"
     /\ last.pid = p
     /\ p \in DOMAIN page_table
     /\ pages[page_table[p]].page_id = p
     /\ pages[page_table[p]].is_dirty = FALSE
     /\ expect[p] # NoData)
      => disk[p] = expect[p]

\* Thread t is in a GetValue or Remove on the table the constructor made
InProbe(t) ==
  /\ ~Idle(t)
  /\ th[t][1].fn \in {"GetValue", "Remove"}
  /\ header_page_id = 0

\* The readable slots of the current table whose key is k
SlotsOfKey(k) ==
  LET hp == ht_pages[header_page_id] IN
  {s \in (1 .. NumBlocks(hp)) \X Slots :
     LET bp == ht_pages[hp.block_page_ids[s[1]]] IN
       IsReadable(bp, s[2]) /\ KeyAt(bp, s[2]) = k}

\* GetValue reported no more values than there are live slots with its key
ReportedAtMostOnce ==
  \A t \in DOMAIN th :
    (Returned(t, "GetValue") /\ NoResize)
      => Len(ret[t].result) <= Cardinality(SlotsOfKey(ret[t].key))

\* C13: every GetValue and every Remove returns, whatever the key and the
\* content of the table (also when every slot is occupied), and GetValue
\* reports each matching live slot at most once.
C13_ProbeTerminates ==
  /\ \A t \in Threads : InProbe(t) ~> Idle(t)
  /\ []ReportedAtMostOnce

\* C14: table_latch_ is held in shared mode only for the duration of a call:
\* there are never more shared holds than threads inside a call, so once
\* every call has returned nobody holds it.
C14_SharedHoldReleasedOnReturn ==
  table_latch.r <= Cardinality({t \in DOMAIN th : ~Idle(t)})

\* C17 (as claimed): after a Resize(input_size) that returned, the header
\* lists at least twice as many block pages as before the call, whatever
\* input_size was.
C17_BlocksAtLeastDoubled ==
  \A t \in DOMAIN th :
    Returned(t, "Resize")
      => NumBlocks(ht_pages[header_page_id]) >= 2 * ret[t].at_call.blocks

\* C17 (amended): after a Resize(input_size) that returned, the header lists
\* (2 * input_size) / BLOCK_ARRAY_SIZE block pages; that is at least twice
\* the number listed before the call whenever input_size is at least the
\* capacity before the call.
C17_BlocksFromInputSize ==
  \A t \in DOMAIN th :
    Returned(t, "Resize") =>
      LET n == NumBlocks(ht_pages[header_page_id]) IN
        /\ n = (2 * ret[t].size_arg) \div BLOCK_ARRAY_SIZE
        /\ ret[t].size_arg >= BLOCK_ARRAY_SIZE * ret[t].at_call.blocks
             => n >= 2 * ret[t].at_call.blocks

C17_ResizeReturnedDoubled ==
  \E t \in DOMAIN th :
    /\ Returned(t, "Resize")
    /\ ret[t].at_call.blocks > 0
    /\ ret[t].size_arg >= BLOCK_ARRAY_SIZE * ret[t].at_call.blocks
    /\ NumBlocks(ht_pages[header_page_id]) >= 2 * ret[t].at_call.blocks

\* C18: a thread that is inside Resize holds no index latch in the calls
\* below it (Insert released table_latch_ and the page latches before calling
\* Resize), and a Resize that holds table_latch_ exclusively has no call of
\* GetValue, Insert or Remove above it.
C18_ResizeHoldsNoLatchNorCallsBack ==
  \A t \in DOMAIN th : \A i \in DOMAIN th[t] :
    th[t][i].fn = "Resize" =>
      /\ \A j \in 1 .. (i - 1) : th[t][j].held = {}
      /\ TableW \in th[t][i].held =>
           \A j \in (i + 1) .. Len(th[t]) :
              th[t][j].fn \notin {"GetValue", "Insert", "Remove"}

\* The latches thread t holds in all its activations
HeldBy(t) == UNION {th[t][i].held : i \in DOMAIN th[t]}

\* table_latch_ before the header page latch before a block page latch
Rank(l) ==
  CASE l[1] \in {"table_r", "table_w"} -> 1
    [] l[1] = "header" -> 2
    [] l[1] = "block" -> 3

OneBlockLatch ==
  \A t \in DOMAIN th : Cardinality({l \in HeldBy(t) : l[1] = "block"}) <= 1

\* A step that takes a latch takes one that ranks after all the thread holds
LatchOrder ==
  \A t \in DOMAIN th :
    \A l \in HeldBy(t)' \ HeldBy(t) : \A m \in HeldBy(t) : Rank(m) < Rank(l)

InResize(t) == \E i \in DOMAIN th[t] : th[t][i].fn = "Resize"

\* Thread t is inside GetValue, Insert or Remove and has not called Resize
InCall(t) == ~Idle(t) /\ ~InResize(t)

CallOver(t) == Idle(t) \/ InResize(t)

\* C19: with GetValue, Insert and Remove running concurrently and no
\* Resize, a thread holds at most one block page latch, takes its latches in
\* the order table_latch_, header page latch, block page latch, and every
\* call returns (no deadlock, no call that runs for ever).
C19_LatchOrderAndProgress ==
  /\ []OneBlockLatch
  /\ [][LatchOrder]_vars
  /\ \A t \in ThreadsMT : InCall(t) ~> CallOver(t)

\* C20: when no call is running, no page of the index is pinned or latched:
\* every call unpinned each page it got from FetchPage or NewPage and
\* released each page latch it took.
C20_NoPinOrLatchLeftBehind ==
  (\A t \in DOMAIN th : Idle(t)) =>
     \A pid \in DOMAIN ht_pages :
        /\ ht_pages[pid].pin = 0
        /\ ht_pages[pid].r = 0
        /\ ht_pages[pid].w = FALSE

\* Slot j of block page q is what it is in block page bp
SameSlot(bp, q, j) ==
  /\ IsOccupied(q, j) = IsOccupied(bp, j)
  /\ IsReadable(q, j) = IsReadable(bp, j)
  /\ q.array[j] = bp.array[j]

\* What Insert(i, key, value) and Remove(i) do to block page bp
BlockInsertContract(bp, i, key, value) ==
  LET r == BlockInsert(bp, i, key, value) IN
  /\ r.ok = ~IsReadable(bp, i)
  /\ r.ok => /\ IsOccupied(r.page, i) /\ IsReadable(r.page, i)
             /\ KeyAt(r.page, i) = key /\ ValueAt(r.page, i) = value
  /\ ~r.ok => r.page = bp
  /\ \A j \in Slots \ {i} : SameSlot(bp, r.page, j)

BlockRemoveContract(bp, i) ==
  LET q == BlockRemove(bp, i) IN
  /\ ~IsReadable(q, i)
  /\ IsOccupied(q, i) = IsOccupied(bp, i)
  /\ q.array[i] = bp.array[i]
  /\ \A j \in Slots \ {i} : SameSlot(bp, q, j)

\* C23: on a block page reached by any sequence of Insert(i,k,v) and
\* Remove(i): readable[i] implies occupied[i]; no step takes occupied[i] from
\* true to false; Insert(i,..) returns true iff slot i was not readable; and
\* an operation on slot i changes no bit and no pair of another slot.
C23_BlockPageBitmaps ==
  /\ [](\A i \in Slots : IsReadable(ht_pages[1], i) => IsOccupied(ht_pages[1], i))
  /\ [][\A i \in Slots : IsOccupied(ht_pages[1], i) => IsOccupied(ht_pages'[1], i)]_vars
  /\ [](\A i \in Slots :
          /\ BlockRemoveContract(ht_pages[1], i)
          /\ \A k \in Keys : \A v \in Values : BlockInsertContract(ht_pages[1], i, k, v))

\* A page with a live slot and a tombstone after MaxBlockOps calls
C23_TombstoneBesideLiveSlot ==
  /\ calls = MaxBlockOps
  /\ \E i \in Slots : IsOccupied(ht_pages[1], i) /\ ~IsReadable(ht_pages[1], i)
  /\ \E i \in Slots : IsReadable(ht_pages[1], i)

\* C24: after any sequence of Pin, Unpin and Victim calls clock_size is the
\* number of slots with isPin = false, so a Victim call entered with
\* clock_size > 0 finds a candidate, and it returns after advancing the clock
\* hand at most 2 * N times, N being the number of slots.
C24_VictimTerminates ==
  /\ clock_size = Cardinality({f \in Frames : ~clock_replacer_list[f].isPin})
  /\ clock_size > 0 =>
       /\ NextVictim.found
       /\ VictimHandMoves(clock_replacer_list, clock_size, clock_hand) <= 2 * PoolSize

\* After a Victim call moved the hand and an Unpin, the next Victim needs the
\* whole 2 * N advances: the only candidate is the slot behind the hand and
\* it has its second chance
C24_LongestSweep ==
  /\ last.op = "Unpin"
  /\ clock_hand > 0
  /\ clock_size = 1
  /\ VictimHandMoves(clock_replacer_list, clock_size, clock_hand) = 2 * PoolSize

\* Slot number pos (0 .. capacity - 1, in probe order) of the current table
SlotOccupied(pos) ==
  LET hp == ht_pages[header_page_id] IN
  IsOccupied(ht_pages[hp.block_page_ids[pos \div BLOCK_ARRAY_SIZE + 1]],
             pos % BLOCK_ARRAY_SIZE)

SlotReadable(pos) ==
  LET hp == ht_pages[header_page_id] IN
  IsReadable(ht_pages[hp.block_page_ids[pos \div BLOCK_ARRAY_SIZE + 1]],
             pos % BLOCK_ARRAY_SIZE)

SlotKey(pos) ==
  LET hp == ht_pages[header_page_id] IN
  KeyAt(ht_pages[hp.block_page_ids[pos \div BLOCK_ARRAY_SIZE + 1]],
        pos % BLOCK_ARRAY_SIZE)

\* Every slot from the start bucket of the key in slot pos up to pos, in
\* cyclic probe order, is occupied
RunUnbroken(pos) ==
  LET start == GetHash(SlotKey(pos)) % TableSize IN
  \A d \in 0 .. ((pos - start) % TableSize) : SlotOccupied((start + d) % TableSize)

BlockPages == 1 .. NumBuckets

\* C21: every modification the index makes to a block page survives
\* eviction: a block page nobody has pinned either holds the bytes the disk
\* holds or is marked dirty, so that evicting and re-reading any page of the
\* index leaves the live pairs (what GetValue reports) as they were; after
\* Insert(k, v) returned true the pair is still live, after Remove(k, v)
\* returned true it is still gone.
C21_ChangesSurviveEviction ==
  /\ [](NoResize =>
          \A pid \in BlockPages :
             ht_pages[pid].pin = 0 =>
               ht_pages[pid].is_dirty \/ BytesOf(ht_pages[pid]) = ht_pages[pid].disk)
  /\ [][\A pid \in 0 .. NumBuckets :
          NoResize /\ EvictPage(pid) => LivePairs' = LivePairs]_vars

\* Insert(k, v) returned true, the block page was evicted and read again,
\* and the pair is not in the table
C21_InsertedPairLost ==
  /\ NoResize
  /\ \E t \in Threads :
       /\ Returned(t, "Insert")
       /\ ret[t].ok
       /\ LivePairs = {}
       /\ calls = 1

\* The pages a successful NewPage gave to the index
IndexPages == DOMAIN ht_pages

\* The block page ids header page hid lists are ids a successful NewPage gave
\* to the index, each listed once, none of them the header itself
ListsOwnBlocks(hid) ==
  LET ids == ht_pages[hid].block_page_ids IN
  /\ \A i \in DOMAIN ids : ids[i] \in IndexPages \ {hid}
  /\ \A i, j \in DOMAIN ids : ids[i] = ids[j] => i = j

\* C25: when the buffer pool cannot supply a frame the constructor (and
\* Resize) neither uses the null frame nor records in the header a page id
\* that no successful NewPage returned: no activation is ever at the WLatch
\* of a null page, and every block page id a header lists is a page of the
\* index that NewPage returned, listed once.
C25_HeaderValidUnderExhaustion ==
  /\ \A t \in Threads : ~Idle(t) => Top(t).pc # "null_frame"
  /\ \A hid \in IndexPages : ListsOwnBlocks(hid)

====
